---- MODULE Spec2Model ----
(***************************************************************************)
(* The view-state machine of frontend/src/App.js: the HomePage component   *)
(* (Generator View), the GalleryPage component it renders once a result is *)
(* held, and the four backend calls with their responses in flight.        *)
(* One action is one React event handler, effect or promise continuation,  *)
(* run to completion together with the re-render that follows it.          *)
(***************************************************************************)
EXTENDS Integers, Sequences, FiniteSets

\* ------------------------------------------------------------------ bounds

\* GalleryPage instances mounted during one page life.
MaxMounts == 2

\* ------------------------------------------------------------ value domains

\* JavaScript null / undefined for string-valued things.
Null == "null"
\* An absent object (useState(null)) is the empty sequence, a held one <<obj>>.
None == <<>>
Some(x) == <<x>>

\* A text field value is a sequence of characters.
Texts == { <<>>, <<" ">>, <<" ", "a", " ">> }
\* A field missing from a response object.
Undefined == <<"undefined">>

UrlFlags == { Null, "", "true" }
UrlSessions == { Null, "", "s1" }
SessionIds == { "s1", "s2" }

SpotifyTexts == { Undefined, <<"a">> }
SpotifyDatas == [ artists_text : SpotifyTexts, genres_text : SpotifyTexts ]
\* response.data.spotify_data of GET /api/session/{id}/spotify
SessionResponses == { None } \cup { Some(d) : d \in SpotifyDatas }

PromptLists == { <<"p1">>, <<"p2">> }
ImageLists == { <<>>, <<"i1">> }
\* response.data of POST /api/generate
GenerationResults == [ session_id : SessionIds, prompts : PromptLists, image_urls : ImageLists ]

NoToast == "none"
ToastSpotifyLoaded == "success: Spotify data loaded successfully!"
ToastConnectFailed == "error: Failed to connect to Spotify"
ToastNeedInput == "error: Please provide artists or genres, or connect your Spotify account"
ToastGenerated == "success: DJ Persona generated successfully!"
ToastGenerateFailed == "error: Failed to generate DJ persona"
ToastCleared == "info: Spotify data cleared"
ToastRegenerated == "success: New prompts generated!"
ToastRegenerateFailed == "error: Failed to regenerate prompts"

\* ------------------------------------------------------------- pure helpers

\* JavaScript truthiness of a string-or-null value.
Truthy(s) == s # Null /\ s # ""

RECURSIVE TrimStart(_)
TrimStart(s) == IF s # <<>> /\ Head(s) = " " THEN TrimStart(Tail(s)) ELSE s

RECURSIVE TrimEnd(_)
TrimEnd(s) == IF s # <<>> /\ s[Len(s)] = " " THEN TrimEnd(SubSeq(s, 1, Len(s) - 1)) ELSE s

\* String.prototype.trim
Trim(s) == TrimEnd(TrimStart(s))

\* x || ''
OrEmptyText(x) == IF x = Undefined \/ x = <<>> THEN <<>> ELSE x

\* sessionId || ''
OrEmptyId(x) == IF Truthy(x) THEN x ELSE ""

\* ------------------------------------------------------------------- state

VARIABLES
    pc,           \* "mounting" (first render done, effect pending), "ready", "left" (browser navigated away)
    url,          \* window.location.search as [spotify_connected, session]
    spotifyData,  \* HomePage state
    loading,
    sessionId,
    artistsText,
    genresText,
    generating,
    result,
    view,         \* the set of views in the rendered output
    gallery,      \* the mounted GalleryPage instance: None or <<[key, regenerating, prompts]>>
    mounts,       \* GalleryPage instances mounted so far
    sessionReqs,  \* GET /api/session/{id}/spotify in flight (ids)
    loginReqs,    \* GET /api/login/spotify in flight (count)
    genReqs,      \* POST /api/generate in flight (forms, in issue order)
    regenReqs,    \* POST /api/regenerate-prompts/{id} in flight: [key, session_id]
    toast,        \* the notification raised by the latest handler (NoToast if none)
    last,         \* the latest handler or continuation that ran
    cleared,      \* clearSpotify has run in this page life
    issued,       \* the form state when the /api/generate call in flight was issued
    mountLog      \* the effects of the return-from-Spotify path, in program order

vars == << pc, url, spotifyData, loading, sessionId, artistsText, genresText, generating,
           result, view, gallery, mounts, sessionReqs, loginReqs, genReqs, regenReqs,
           toast, last, cleared, issued, mountLog >>

\* ------------------------------------------------------------- rendering

\* Render without the early return: the generator markup is always produced.
RenderBoth(res) == IF res # None THEN { "Generator", "Gallery" } ELSE { "Generator" }

\* if (result) return <GalleryPage .../>; return <div>...generator...</div>
Render(res) == IF res # None THEN { "Gallery" } ELSE { "Generator" }

\* React keeps a mounted GalleryPage's state across renders, mounts a fresh one
\* (useState(false), useState(result.prompts)) when the element appears, and
\* drops the state when it disappears.
Reconcile(g, res, key) ==
    IF res = None THEN None
    ELSE IF g # None THEN g
    ELSE Some([ key |-> key, regenerating |-> FALSE, prompts |-> res[1].prompts ])

\* The disabled attribute without the generating term.
GenerateDisabledBlankOnly == Trim(artistsText) = <<>> /\ Trim(genresText) = <<>>

\* disabled={generating || (!artistsText.trim() && !genresText.trim())}
GenerateDisabled == generating \/ (Trim(artistsText) = <<>> /\ Trim(genresText) = <<>>)

\* A prompts setter that reaches whichever GalleryPage is mounted.
SetPromptsAnyInstance(g, key, p) ==
    IF g # None THEN Some([ g[1] EXCEPT !.prompts = p ]) ELSE g

\* A state setter of a GalleryPage instance: a no-op once that instance is unmounted.
SetPrompts(g, key, p) ==
    IF g # None /\ g[1].key = key THEN Some([ g[1] EXCEPT !.prompts = p ]) ELSE g

SetRegenerating(g, key, b) ==
    IF g # None /\ g[1].key = key THEN Some([ g[1] EXCEPT !.regenerating = b ]) ELSE g

\* The request is issued by the instance that is still mounted.
IsCurrent(r) == gallery # None /\ gallery[1].key = r.key

RemoveAt(s, i) == SubSeq(s, 1, i - 1) \o SubSeq(s, i + 1, Len(s))

\* ------------------------------------------------------------------- init

Init ==
    /\ pc = "mounting"
    /\ url \in [ spotify_connected : UrlFlags, session : UrlSessions ]
    /\ spotifyData = None
    /\ loading = FALSE
    /\ sessionId = Null
    /\ artistsText = <<>>
    /\ genresText = <<>>
    /\ generating = FALSE
    /\ result = None
    /\ view = Render(None)
    /\ gallery = None
    /\ mounts = 0
    /\ sessionReqs = {}
    /\ loginReqs = 0
    /\ genReqs = <<>>
    /\ regenReqs = {}
    /\ toast = NoToast
    /\ last = "load"
    /\ cleared = FALSE
    /\ issued = None
    /\ mountLog = <<>>

\* ------------------------------------------------- HomePage: effect on mount

\* The effect's test without the spotify_connected term.
ReturnedFromSpotifySessionOnly == Truthy(url.session)

\* useEffect(() => {...}, []): setSessionId, fetchSpotifyData up to its await, replaceState.
ReturnedFromSpotify == Truthy(url.spotify_connected) /\ Truthy(url.session)

Mount ==
    /\ pc = "mounting"
    /\ pc' = "ready"
    /\ IF ReturnedFromSpotify
       THEN /\ sessionId' = url.session
            /\ sessionReqs' = sessionReqs \cup { url.session }
            /\ url' = [ spotify_connected |-> Null, session |-> Null ]
            /\ mountLog' = mountLog \o << "get", "strip" >>
       ELSE UNCHANGED << sessionId, sessionReqs, url, mountLog >>
    /\ toast' = NoToast
    /\ last' = "mount"
    /\ UNCHANGED << spotifyData, loading, artistsText, genresText, generating, result, view,
                    gallery, mounts, loginReqs, genReqs, regenReqs, cleared, issued >>

\* fetchSpotifyData after the await: the try body.
FetchSpotifyDataResolve(s, data) ==
    /\ pc = "ready"
    /\ s \in sessionReqs
    /\ sessionReqs' = sessionReqs \ { s }
    /\ IF data # None
       THEN /\ spotifyData' = data
            /\ artistsText' = OrEmptyText(data[1].artists_text)
            /\ genresText' = OrEmptyText(data[1].genres_text)
            /\ toast' = ToastSpotifyLoaded
            /\ last' = "session_ok"
            /\ mountLog' = Append(mountLog, "prefill")
       ELSE /\ toast' = NoToast
            /\ last' = "session_empty"
            /\ UNCHANGED << spotifyData, artistsText, genresText, mountLog >>
    /\ UNCHANGED << pc, url, loading, sessionId, generating, result, view, gallery, mounts,
                    loginReqs, genReqs, regenReqs, cleared, issued >>

\* fetchSpotifyData after the await: the catch block (console.error only).
FetchSpotifyDataReject(s) ==
    /\ pc = "ready"
    /\ s \in sessionReqs
    /\ sessionReqs' = sessionReqs \ { s }
    /\ toast' = NoToast
    /\ last' = "session_fail"
    /\ UNCHANGED << pc, url, spotifyData, loading, sessionId, artistsText, genresText,
                    generating, result, view, gallery, mounts, loginReqs, genReqs,
                    regenReqs, cleared, issued, mountLog >>

\* ------------------------------------------------- HomePage: Connect Spotify

\* The button is rendered in Generator View when spotifyData is null; disabled={loading}.
ConnectEnabled == "Generator" \in view /\ spotifyData = None /\ ~loading

ClickConnect ==
    /\ pc = "ready"
    /\ ConnectEnabled
    /\ loading' = TRUE
    /\ loginReqs' = loginReqs + 1
    /\ toast' = NoToast
    /\ last' = "connect"
    /\ UNCHANGED << pc, url, spotifyData, sessionId, artistsText, genresText, generating,
                    result, view, gallery, mounts, sessionReqs, genReqs, regenReqs,
                    cleared, issued, mountLog >>

\* window.location.href = response.data.auth_url: the document is replaced.
ConnectResolve ==
    /\ pc = "ready"
    /\ loginReqs > 0
    /\ loginReqs' = loginReqs - 1
    /\ pc' = "left"
    /\ toast' = NoToast
    /\ last' = "connect_ok"
    /\ UNCHANGED << url, spotifyData, loading, sessionId, artistsText, genresText, generating,
                    result, view, gallery, mounts, sessionReqs, genReqs, regenReqs,
                    cleared, issued, mountLog >>

\* The catch block without setLoading(false).
ConnectRejectStaysLoading ==
    /\ pc = "ready"
    /\ loginReqs > 0
    /\ loginReqs' = loginReqs - 1
    /\ toast' = ToastConnectFailed
    /\ last' = "connect_fail"
    /\ UNCHANGED << pc, url, spotifyData, loading, sessionId, artistsText, genresText,
                    generating, result, view, gallery, mounts, sessionReqs, genReqs,
                    regenReqs, cleared, issued, mountLog >>

ConnectReject ==
    /\ pc = "ready"
    /\ loginReqs > 0
    /\ loginReqs' = loginReqs - 1
    /\ loading' = FALSE
    /\ toast' = ToastConnectFailed
    /\ last' = "connect_fail"
    /\ UNCHANGED << pc, url, spotifyData, sessionId, artistsText, genresText, generating,
                    result, view, gallery, mounts, sessionReqs, genReqs, regenReqs,
                    cleared, issued, mountLog >>

\* ---------------------------------------------------- HomePage: text fields

\* onChange={(e) => setArtistsText(e.target.value)}; the inputs are never disabled.
TypeArtists(t) ==
    /\ pc = "ready"
    /\ "Generator" \in view
    /\ t # artistsText
    /\ artistsText' = t
    /\ toast' = NoToast
    /\ last' = "type"
    /\ UNCHANGED << pc, url, spotifyData, loading, sessionId, genresText, generating, result,
                    view, gallery, mounts, sessionReqs, loginReqs, genReqs, regenReqs,
                    cleared, issued, mountLog >>

TypeGenres(t) ==
    /\ pc = "ready"
    /\ "Generator" \in view
    /\ t # genresText
    /\ genresText' = t
    /\ toast' = NoToast
    /\ last' = "type"
    /\ UNCHANGED << pc, url, spotifyData, loading, sessionId, artistsText, generating, result,
                    view, gallery, mounts, sessionReqs, loginReqs, genReqs, regenReqs,
                    cleared, issued, mountLog >>

\* ---------------------------------------------------------- HomePage: Clear

\* clearSpotify without setSessionId(null).
ClickClearKeepsSession ==
    /\ pc = "ready"
    /\ "Generator" \in view
    /\ spotifyData # None
    /\ spotifyData' = None
    /\ artistsText' = <<>>
    /\ genresText' = <<>>
    /\ toast' = ToastCleared
    /\ last' = "clear"
    /\ cleared' = TRUE
    /\ UNCHANGED << pc, url, loading, sessionId, generating, result, view, gallery, mounts,
                    sessionReqs, loginReqs, genReqs, regenReqs, issued, mountLog >>

\* The Clear button is rendered in place of Connect when spotifyData is held.
ClickClear ==
    /\ pc = "ready"
    /\ "Generator" \in view
    /\ spotifyData # None
    /\ spotifyData' = None
    /\ sessionId' = Null
    /\ artistsText' = <<>>
    /\ genresText' = <<>>
    /\ toast' = ToastCleared
    /\ last' = "clear"
    /\ cleared' = TRUE
    /\ UNCHANGED << pc, url, loading, generating, result, view, gallery, mounts, sessionReqs,
                    loginReqs, genReqs, regenReqs, issued, mountLog >>

\* ------------------------------------------------------- HomePage: Generate

\* The FormData of handleGenerate.
GenerateForm ==
    [ session_id |-> OrEmptyId(sessionId), artists_text |-> artistsText, genres_text |-> genresText ]

\* handleGenerate testing the raw field values, without trim().
HandleGenerateNoTrim ==
    IF artistsText = <<>> /\ genresText = <<>>
    THEN [ generating |-> generating, requests |-> genReqs, result |-> result,
           toast |-> ToastNeedInput ]
    ELSE [ generating |-> TRUE, requests |-> Append(genReqs, GenerateForm), result |-> result,
           toast |-> NoToast ]

\* handleGenerate up to its await, run on the current state: the state it leaves.
HandleGenerate ==
    IF Trim(artistsText) = <<>> /\ Trim(genresText) = <<>>
    THEN [ generating |-> generating, requests |-> genReqs, result |-> result,
           toast |-> ToastNeedInput ]
    ELSE [ generating |-> TRUE, requests |-> Append(genReqs, GenerateForm), result |-> result,
           toast |-> NoToast ]

FormState ==
    [ artistsText |-> artistsText, genresText |-> genresText, sessionId |-> sessionId,
      spotifyData |-> spotifyData ]

ClickGenerate ==
    /\ pc = "ready"
    /\ "Generator" \in view
    /\ ~GenerateDisabled
    /\ mounts < MaxMounts
    /\ generating' = HandleGenerate.generating
    /\ genReqs' = HandleGenerate.requests
    /\ result' = HandleGenerate.result
    /\ toast' = HandleGenerate.toast
    /\ last' = "generate"
    /\ issued' = IF Len(genReqs') > Len(genReqs) THEN Some(FormState) ELSE issued
    /\ UNCHANGED << pc, url, spotifyData, loading, sessionId, artistsText, genresText,
                    view, gallery, mounts, sessionReqs, loginReqs, regenReqs, cleared,
                    mountLog >>

\* handleGenerate after the await: setResult, toast.success, finally setGenerating(false).
GenerateResolve(i, data) ==
    /\ pc = "ready"
    /\ i \in 1..Len(genReqs)
    /\ genReqs' = RemoveAt(genReqs, i)
    /\ result' = Some(data)
    /\ generating' = FALSE
    /\ view' = Render(result')
    /\ gallery' = Reconcile(gallery, result', mounts + 1)
    /\ mounts' = IF gallery = None THEN mounts + 1 ELSE mounts
    /\ toast' = ToastGenerated
    /\ last' = "generate_ok"
    /\ issued' = None
    /\ UNCHANGED << pc, url, spotifyData, loading, sessionId, artistsText, genresText,
                    sessionReqs, loginReqs, regenReqs, cleared, mountLog >>

\* The failure path without the finally block.
GenerateRejectNoFinally(i) ==
    /\ pc = "ready"
    /\ i \in 1..Len(genReqs)
    /\ genReqs' = RemoveAt(genReqs, i)
    /\ toast' = ToastGenerateFailed
    /\ last' = "generate_fail"
    /\ issued' = None
    /\ UNCHANGED << pc, url, spotifyData, loading, sessionId, artistsText, genresText,
                    generating, result, view, gallery, mounts, sessionReqs, loginReqs,
                    regenReqs, cleared, mountLog >>

\* handleGenerate after the await: catch, finally.
GenerateReject(i) ==
    /\ pc = "ready"
    /\ i \in 1..Len(genReqs)
    /\ genReqs' = RemoveAt(genReqs, i)
    /\ generating' = FALSE
    /\ toast' = ToastGenerateFailed
    /\ last' = "generate_fail"
    /\ issued' = None
    /\ UNCHANGED << pc, url, spotifyData, loading, sessionId, artistsText, genresText, result,
                    view, gallery, mounts, sessionReqs, loginReqs, regenReqs, cleared,
                    mountLog >>

\* ----------------------------------------------------------- GalleryPage

\* onBack={() => setResult(null)}
ClickBack ==
    /\ pc = "ready"
    /\ "Gallery" \in view
    /\ result' = None
    /\ view' = Render(result')
    /\ gallery' = Reconcile(gallery, result', mounts + 1)
    /\ toast' = NoToast
    /\ last' = "back"
    /\ UNCHANGED << pc, url, spotifyData, loading, sessionId, artistsText, genresText,
                    generating, mounts, sessionReqs, loginReqs, genReqs, regenReqs, cleared, issued,
                    mountLog >>

\* The prompts card, with its button, is rendered only when there are no image_urls;
\* disabled={regenerating}.
RegenerateEnabled ==
    /\ "Gallery" \in view
    /\ result # None /\ gallery # None
    /\ ~(result[1].image_urls # <<>>)
    /\ ~gallery[1].regenerating

\* handleRegeneratePrompts up to its await.
ClickRegenerate ==
    /\ pc = "ready"
    /\ RegenerateEnabled
    /\ gallery' = SetRegenerating(gallery, gallery[1].key, TRUE)
    /\ regenReqs' = regenReqs \cup { [ key |-> gallery[1].key, session_id |-> result[1].session_id ] }
    /\ toast' = NoToast
    /\ last' = "regenerate"
    /\ UNCHANGED << pc, url, spotifyData, loading, sessionId, artistsText, genresText,
                    generating, result, view, mounts, sessionReqs, loginReqs, genReqs,
                    cleared, issued, mountLog >>

\* handleRegeneratePrompts after the await: setPrompts, toast.success, finally.
RegenerateResolve(r, p) ==
    /\ pc = "ready"
    /\ r \in regenReqs
    /\ regenReqs' = regenReqs \ { r }
    /\ gallery' = SetRegenerating(SetPrompts(gallery, r.key, p), r.key, FALSE)
    /\ toast' = ToastRegenerated
    /\ last' = IF IsCurrent(r) THEN "regen_ok" ELSE "regen_ok_stale"
    /\ UNCHANGED << pc, url, spotifyData, loading, sessionId, artistsText, genresText,
                    generating, result, view, mounts, sessionReqs, loginReqs, genReqs,
                    cleared, issued, mountLog >>

\* A catch block that also empties the prompt list.
RegenerateRejectClearsPrompts(r) ==
    /\ pc = "ready"
    /\ r \in regenReqs
    /\ regenReqs' = regenReqs \ { r }
    /\ gallery' = SetRegenerating(SetPrompts(gallery, r.key, <<>>), r.key, FALSE)
    /\ toast' = ToastRegenerateFailed
    /\ last' = IF IsCurrent(r) THEN "regen_fail" ELSE "regen_fail_stale"
    /\ UNCHANGED << pc, url, spotifyData, loading, sessionId, artistsText, genresText,
                    generating, result, view, mounts, sessionReqs, loginReqs, genReqs,
                    cleared, issued, mountLog >>

\* handleRegeneratePrompts after the await: catch, finally.
RegenerateReject(r) ==
    /\ pc = "ready"
    /\ r \in regenReqs
    /\ regenReqs' = regenReqs \ { r }
    /\ gallery' = SetRegenerating(gallery, r.key, FALSE)
    /\ toast' = ToastRegenerateFailed
    /\ last' = IF IsCurrent(r) THEN "regen_fail" ELSE "regen_fail_stale"
    /\ UNCHANGED << pc, url, spotifyData, loading, sessionId, artistsText, genresText,
                    generating, result, view, mounts, sessionReqs, loginReqs, genReqs,
                    cleared, issued, mountLog >>

\* ------------------------------------------------------------ specification

Next ==
    \/ Mount
    \/ \E s \in SessionIds, data \in SessionResponses : FetchSpotifyDataResolve(s, data)
    \/ \E s \in SessionIds : FetchSpotifyDataReject(s)
    \/ ClickConnect
    \/ ConnectResolve
    \/ ConnectReject
    \/ \E t \in Texts : TypeArtists(t)
    \/ \E t \in Texts : TypeGenres(t)
    \/ ClickClear
    \/ ClickGenerate
    \/ \E i \in 1..Len(genReqs), data \in GenerationResults : GenerateResolve(i, data)
    \/ \E i \in 1..Len(genReqs) : GenerateReject(i)
    \/ ClickBack
    \/ ClickRegenerate
    \/ \E r \in regenReqs, p \in PromptLists : RegenerateResolve(r, p)
    \/ \E r \in regenReqs : RegenerateReject(r)

Spec == Init /\ [][Next]_vars

\* ================================================================== claims

\* A text is empty or consists of whitespace only.
IsBlank(t) == \A i \in 1..Len(t) : t[i] = " "

ErrorToasts ==
    { ToastConnectFailed, ToastNeedInput, ToastGenerateFailed, ToastRegenerateFailed }

\* The prompt list on screen (none while Generator View is rendered).
DisplayedPrompts == IF gallery # None THEN gallery[1].prompts ELSE <<>>

\* The persona-generation lifecycle state.
Phase ==
    IF result # None THEN "ResultShown" ELSE IF generating THEN "Generating" ELSE "Idle"

\* ---- C1
\* C1: in every reachable state exactly one of Generator View and Gallery View is
\* rendered, and Gallery View is the one rendered exactly when result is held,
\* whatever the other HomePage state is; the GalleryPage instance exists exactly then.
C1_ViewSelectedByResult ==
    /\ Cardinality(view) = 1
    /\ view \subseteq { "Generator", "Gallery" }
    /\ ("Gallery" \in view) <=> (result # None)
    /\ (gallery # None) <=> (result # None)

\* Gallery View on screen while loading is set, Spotify data is held and text is filled.
C1_Witness ==
    /\ "Gallery" \in view
    /\ loading
    /\ spotifyData # None
    /\ sessionId # Null
    /\ artistsText # <<>>

\* ---- C2
\* C2: whenever both text fields are empty or whitespace-only the Generate button is
\* disabled, and handleGenerate run in that state sends no request, does not set
\* generating and leaves result unchanged; every /api/generate request in flight
\* carries at least one field that is not blank.
C2_GenerateNeedsInput ==
    /\ (IsBlank(artistsText) /\ IsBlank(genresText)) =>
          /\ GenerateDisabled
          /\ HandleGenerate.requests = genReqs
          /\ HandleGenerate.generating = generating
          /\ HandleGenerate.result = result
    /\ \A i \in 1..Len(genReqs) :
          ~IsBlank(genReqs[i].artists_text) \/ ~IsBlank(genReqs[i].genres_text)

\* Whitespace-only input typed while an earlier, non-blank request is in flight.
C2_Witness ==
    /\ artistsText = << " " >>
    /\ IsBlank(genresText)
    /\ Len(genReqs) = 1
    /\ last = "type"

\* ---- C3
\* C3 as stated: after a failed /api/generate the error notification is shown, result
\* is absent, generating is false and the form state is exactly what it was when the
\* call was issued.
C3_FormAsIssued ==
    [][ last' = "generate_fail" =>
          /\ toast' = ToastGenerateFailed
          /\ result' = None
          /\ ~generating'
          /\ issued # None
          /\ FormState' = issued[1] ]_vars

\* C3 amended: a failed /api/generate raises the error notification, leaves result
\* absent with Generator View rendered, and its handling changes none of artistsText,
\* genresText, sessionId, spotifyData (which may have changed while the call was in
\* flight); a successful one stores a response as result and shows it; generating is
\* false after either.
C3_FailureKeepsForm ==
    [][ /\ last' = "generate_fail" =>
              /\ toast' = ToastGenerateFailed
              /\ result' = None
              /\ view' = { "Generator" }
              /\ FormState' = FormState
              /\ ~generating'
        /\ last' = "generate_ok" =>
              /\ result' \in { Some(d) : d \in GenerationResults }
              /\ view' = { "Gallery" }
              /\ DisplayedPrompts' = result'[1].prompts
              /\ FormState' = FormState
              /\ ~generating' ]_vars

\* A failure handled after the user edited the form during the call.
C3_Witness ==
    /\ last = "generate_fail"
    /\ toast = ToastGenerateFailed
    /\ result = None
    /\ artistsText = << " " >>

\* ---- C4
\* C4: a failed regenerate-prompts call raises the error notification, leaves the
\* displayed prompt list as it was and sends no further request; each GalleryPage
\* instance has at most one such call in flight; while an instance stays mounted its
\* prompt list changes only in the handling of a successful regenerate response.
C4_FailedRegenerateKeepsPrompts ==
    [][ /\ last' \in { "regen_fail", "regen_fail_stale" } =>
              /\ toast' = ToastRegenerateFailed
              /\ DisplayedPrompts' = DisplayedPrompts
              /\ regenReqs' \subseteq regenReqs
              /\ regenReqs' # regenReqs
              /\ genReqs' = genReqs
        /\ \A k \in 1..(MaxMounts + 1) : Cardinality({ r \in regenReqs' : r.key = k }) <= 1
        /\ ( /\ gallery # None
             /\ gallery' # None
             /\ gallery'[1].key = gallery[1].key
             /\ gallery'[1].prompts # gallery[1].prompts ) => last' = "regen_ok" ]_vars

\* A failed call after an earlier successful one had replaced the list.
C4_Witness ==
    /\ last = "regen_fail"
    /\ toast = ToastRegenerateFailed
    /\ gallery # None
    /\ gallery[1].prompts # result[1].prompts
    /\ ~gallery[1].regenerating

\* ---- C5
\* C5: the lifecycle moves only Idle -> Generating (Generate, with non-blank input),
\* Generating -> ResultShown (success), Generating -> Idle (failure) and
\* ResultShown -> Idle (Back, clearing result and rendering Generator View); a result
\* is never held while generating; a generate request is issued only from Idle, so at
\* most one is in flight.
C5_Lifecycle ==
    [][ /\ ~(result' # None /\ generating')
        /\ Len(genReqs') <= 1
        /\ Len(genReqs') > Len(genReqs) => Phase = "Idle" /\ Phase' = "Generating"
        /\ last' = "back" => Phase = "ResultShown" /\ result' = None /\ view' = { "Generator" }
        /\ Phase' # Phase =>
              \/ /\ Phase = "Idle" /\ Phase' = "Generating" /\ last' = "generate"
                 /\ ~(IsBlank(artistsText) /\ IsBlank(genresText))
              \/ Phase = "Generating" /\ Phase' = "ResultShown" /\ last' = "generate_ok"
              \/ Phase = "Generating" /\ Phase' = "Idle" /\ last' = "generate_fail"
              \/ Phase = "ResultShown" /\ Phase' = "Idle" /\ last' = "back" ]_vars

\* Back to Idle after the second result.
C5_Witness ==
    /\ last = "back"
    /\ Phase = "Idle"
    /\ mounts = 2

\* ---- C6
\* C6 as stated: with both parameters present the session request is issued, the
\* fields are pre-filled and only then the parameters are removed; with either absent
\* nothing is requested and the URL stays.
C6_PrefillThenStrip ==
    /\ \A i \in 1..Len(mountLog) :
          mountLog[i] = "strip" => \E j \in 1..(i - 1) : mountLog[j] = "prefill"
    /\ pc # "mounting" => ~(url.spotify_connected # Null /\ url.session # Null)
    /\ mountLog = <<>> => sessionReqs = {}

\* C6 amended: on page load with both parameters present and non-empty the effect
\* stores the session id, issues the session request and removes both parameters in
\* one step, before any response; the fields are pre-filled later, only by a response
\* that succeeds with spotify_data; if either parameter is absent or empty nothing is
\* requested and the URL is left unchanged; the URL changes at no other time.
C6_StripBeforePrefill ==
    [][ /\ ( /\ pc = "mounting"
             /\ url.spotify_connected \notin { Null, "" }
             /\ url.session \notin { Null, "" } ) =>
                /\ sessionId' = url.session
                /\ sessionReqs' = { url.session }
                /\ url' = [ spotify_connected |-> Null, session |-> Null ]
                /\ mountLog' = << "get", "strip" >>
                /\ artistsText' = artistsText /\ genresText' = genresText
                /\ spotifyData' = None
        /\ ( /\ pc = "mounting"
             /\ ~( url.spotify_connected \notin { Null, "" } /\ url.session \notin { Null, "" } ) ) =>
                /\ url' = url
                /\ sessionReqs' = {}
                /\ sessionId' = Null
                /\ mountLog' = <<>>
        /\ last' = "session_ok" =>
                /\ mountLog = << "get", "strip" >>
                /\ mountLog' = << "get", "strip", "prefill" >>
                /\ spotifyData' # None
                /\ artistsText' \in { <<>>, spotifyData'[1].artists_text }
                /\ genresText' \in { <<>>, spotifyData'[1].genres_text }
                /\ artistsText' # Undefined /\ genresText' # Undefined
        /\ last' \notin { "mount", "session_ok" } => mountLog' = mountLog
        /\ url' # url => pc = "mounting" ]_vars

\* The redirect path run to its end: request, strip, then pre-fill.
C6_Witness ==
    /\ mountLog = << "get", "strip", "prefill" >>
    /\ artistsText = << "a" >>
    /\ url = [ spotify_connected |-> Null, session |-> Null ]

\* ---- C7
\* C7: Clear empties both text fields, drops spotifyData (so the Connect button is
\* rendered in place of the badge) and the session id, and leaves result and
\* generating unchanged; from then on the session id stays null, and every generate
\* request issued afterwards carries an empty session_id.
C7_ClearResets ==
    [][ /\ last' = "clear" =>
              /\ artistsText' = <<>>
              /\ genresText' = <<>>
              /\ spotifyData' = None
              /\ sessionId' = Null
              /\ "Generator" \in view'
              /\ result' = result
              /\ generating' = generating
              /\ cleared'
        /\ cleared => cleared' /\ sessionId' = Null
        /\ (cleared /\ Len(genReqs') > Len(genReqs)) =>
              genReqs'[Len(genReqs')].session_id = "" ]_vars

\* A generate request issued after Clear, in a page that had returned from Spotify.
C7_Witness ==
    /\ cleared
    /\ last = "generate"
    /\ Len(genReqs) = 1
    /\ genReqs[1].session_id = ""
    /\ mountLog # <<>>

\* ---- C8
\* C8: every failed network call leaves an error notification on screen and the
\* application still accepting actions.
C8_EveryFailureNotified ==
    last \in { "session_fail", "connect_fail", "generate_fail", "regen_fail", "regen_fail_stale" } =>
        /\ toast \in ErrorToasts
        /\ pc = "ready"

\* ---- C9
\* C9 as stated: each busy flag is true exactly while its call is in flight, so it is
\* false again once the call has completed, by success or by failure.
C9_FlagIffInFlight ==
    /\ loading <=> (loginReqs > 0)
    /\ generating <=> (genReqs # <<>>)
    /\ gallery # None =>
          (gallery[1].regenerating <=> \E r \in regenReqs : r.key = gallery[1].key)

\* C9 amended: generating, and regenerating of the mounted GalleryPage, are true
\* exactly while their call is in flight; loading is true while the login call is in
\* flight and is reset when it fails, but a successful login call navigates the
\* browser away with loading still true.
C9_FlagResetExceptOnRedirect ==
    /\ loading <=> (loginReqs > 0 \/ pc = "left")
    /\ pc = "left" => last = "connect_ok"
    /\ generating <=> (genReqs # <<>>)
    /\ gallery # None =>
          (gallery[1].regenerating <=> \E r \in regenReqs : r.key = gallery[1].key)

\* A failed login call has re-enabled Connect while a generate call is still busy.
C9_Witness ==
    /\ last = "connect_fail"
    /\ ~loading
    /\ generating
    /\ ConnectEnabled

\* ---- C10
\* C10 as stated: a regenerate response of an unmounted GalleryPage changes no view
\* state, and a session-data response arriving while Gallery View is shown changes
\* none of the text fields, sessionId and spotifyData.
C10_LateResponsesIgnored ==
    [][ /\ last' \in { "regen_ok_stale", "regen_fail_stale" } =>
              UNCHANGED << gallery, result, view, artistsText, genresText, sessionId, spotifyData >>
        /\ ("Gallery" \in view /\ last' \in { "session_ok", "session_empty", "session_fail" }) =>
              UNCHANGED << artistsText, genresText, sessionId, spotifyData >> ]_vars

\* C10 amended: a request leaves the in-flight set only when its own response is
\* handled; a regenerate response of an unmounted GalleryPage changes nothing but
\* the notification, in particular not the prompts of a later result; a session-data
\* response is applied whichever view is shown: it may replace spotifyData and both
\* text fields, and never changes sessionId, result, the view or the prompts.
C10_OnlyStaleGalleryIgnored ==
    [][ /\ last' \in { "regen_ok_stale", "regen_fail_stale" } =>
              UNCHANGED << gallery, result, view, artistsText, genresText, sessionId,
                           spotifyData, loading, generating >>
        /\ last' \in { "session_ok", "session_empty", "session_fail" } =>
              UNCHANGED << sessionId, result, view, gallery, loading, generating >>
        /\ sessionReqs' # sessionReqs =>
              last' \in { "mount", "session_ok", "session_empty", "session_fail" }
        /\ loginReqs' # loginReqs => last' \in { "connect", "connect_ok", "connect_fail" }
        /\ genReqs' # genReqs => last' \in { "generate", "generate_ok", "generate_fail" }
        /\ regenReqs' # regenReqs =>
              last' \in { "regenerate", "regen_ok", "regen_fail", "regen_ok_stale",
                          "regen_fail_stale" } ]_vars

\* A regenerate response of the first GalleryPage handled while the second is shown.
C10_Witness ==
    /\ last = "regen_ok_stale"
    /\ gallery # None
    /\ gallery[1].key = 2
    /\ gallery[1].prompts = result[1].prompts

====
